---- MODULE Spec2Model ----
(***************************************************************************)
(* Subscription lifecycle and gated push notification of kanvas-api.       *)
(*                                                                         *)
(* The subsystems share only the wall clock:                               *)
(*   Spec        the Subscription collection driven by verify, cancel and  *)
(*               the billing webhook (subscription.controller.ts), read by *)
(*               the checkSubscription middleware;                         *)
(*   SpecNotify  the DeviceToken / NotificationPreferences collections and *)
(*               NotificationService.sendNotificationToUser;               *)
(*   SpecTokens  the DeviceToken collection under register and unregister  *)
(*               requests that overlap between their read and their write; *)
(*   SpecPrefs   the NotificationPreferences collection under reads that   *)
(*               overlap between their lookup and their create, and        *)
(*               updates.                                                  *)
(*                                                                         *)
(* Store semantics follow the Mongoose schemas of the repository:          *)
(*   - a unique index treats a missing field as the value null, so two     *)
(*     documents that both lack orderId collide;                           *)
(*   - findOneAndUpdate(.., {upsert: true}) runs no schema validation;     *)
(*   - document.save() validates the modified paths and every required     *)
(*     path the loaded document lacks, and rejects the write when one is   *)
(*     missing.                                                            *)
(***************************************************************************)
EXTENDS Integers, Sequences, FiniteSets, TLC

VARIABLES subs, tokens, prefs, now, last, inflight

vars == <<subs, tokens, prefs, now, last, inflight>>

(***************************************************************************)
(* Bounded input domains.                                                  *)
(***************************************************************************)
Users == {"u1", "u2"}

SubscriptionIds ==
  {"com.yourapp.subscription.basic", "com.yourapp.subscription.premium"}

PurchaseTokens == {"p1", "p2"}

\* The values of the parameter of checkSubscription.
Tiers == {"basic", "premium"}

DeviceTokens == {"t1", "t2"}

\* Token requests that may be between their read and their write at once.
MaxInFlight == 2

\* The clock counts minutes since 00:00 UTC of day 0. Requests are observed
\* at 22:00 of day 0 (the initial instant) and at 02:00 and 09:00 of day 1.
MinutesPerDay == 1440

MinutesPerHour == 60

FirstInstant == 1320

SecondInstant == 1560

ThirdInstant == 1980

Instants == {FirstInstant, SecondInstant, ThirdInstant}

\* Values of expiryTimeMillis the billing provider may report: one that
\* passes while the model runs and one that does not.
EarlyExpiry == 1500

LateExpiry == 2500

\* Preference switches, wall-clock strings and time zones given to updates.
Categories ==
  {"newWallpapers", "trendingWallpapers", "subscriptionUpdates",
   "systemUpdates", "marketingUpdates"}

UpdatedCategories == {"marketingUpdates"}

NotifiedCategories == {"marketingUpdates", "newWallpapers"}

\* <<startTime, endTime>>: a window that spans midnight and one that does not.
Windows == {<<"22:00", "08:00">>, <<"08:00", "22:00">>}

Timezones == {"UTC", "Asia/Dhaka"}

\* Bodies of quiet-hours updates: switching the default window off and on,
\* and every window in every zone switched on.
QuietHoursBodies ==
  {[enabled |-> FALSE, startTime |-> "22:00", endTime |-> "08:00",
    timezone |-> "UTC"]}
  \cup
  {[enabled |-> TRUE, startTime |-> w[1], endTime |-> w[2], timezone |-> z] :
     w \in Windows, z \in Timezones}

Expiries == {EarlyExpiry, LateExpiry}

\* expiryTimeMillis of a purchase resource that carries none (a falsy value).
NoExpiry == 0

(***************************************************************************)
(* Billing Verification Client (GooglePlayService).                        *)
(***************************************************************************)
\* What androidPublisher.purchases.subscriptions.get can do: fail, answer
\* without data, or answer with a purchase resource.
ProviderResponses ==
  {[kind |-> "error", paymentState |-> 0, expiryTimeMillis |-> NoExpiry],
   [kind |-> "nodata", paymentState |-> 0, expiryTimeMillis |-> NoExpiry],
   [kind |-> "data", paymentState |-> 1, expiryTimeMillis |-> NoExpiry]}
  \cup
  [kind : {"data"}, paymentState : {0}, expiryTimeMillis : {LateExpiry}]
  \cup
  [kind : {"data"}, paymentState : {1}, expiryTimeMillis : Expiries]

getSubscriptionTier(subscriptionId) ==
  IF subscriptionId = "com.yourapp.subscription.basic" THEN "basic"
  ELSE IF subscriptionId = "com.yourapp.subscription.premium" THEN "premium"
  ELSE "basic"

\* As verifySubscription, with isValid decided by the payment state alone.
verifySubscription_IgnoreExpiry(presp, subscriptionId, t) ==
  IF presp.kind = "error"
  THEN [threw |-> 500, isValid |-> FALSE, tier |-> "basic", expiryDate |-> 0]
  ELSE IF presp.kind = "nodata"
  THEN [threw |-> 400, isValid |-> FALSE, tier |-> "basic", expiryDate |-> 0]
  ELSE
    LET expiryTimeMillis ==
          IF presp.expiryTimeMillis = NoExpiry THEN 0
          ELSE presp.expiryTimeMillis
    IN [threw |-> 0,
        isValid |-> (presp.paymentState = 1),
        tier |-> getSubscriptionTier(subscriptionId),
        expiryDate |-> expiryTimeMillis]

\* threw is 0 when a result is returned, else the statusCode of the
\* CustomError thrown.
verifySubscription(presp, subscriptionId, t) ==
  IF presp.kind = "error"
  THEN [threw |-> 500, isValid |-> FALSE, tier |-> "basic", expiryDate |-> 0]
  ELSE IF presp.kind = "nodata"
  THEN [threw |-> 400, isValid |-> FALSE, tier |-> "basic", expiryDate |-> 0]
  ELSE
    LET expiryTimeMillis ==
          IF presp.expiryTimeMillis = NoExpiry THEN 0
          ELSE presp.expiryTimeMillis
    IN [threw |-> 0,
        isValid |-> (presp.paymentState = 1 /\ expiryTimeMillis > t),
        tier |-> getSubscriptionTier(subscriptionId),
        expiryDate |-> expiryTimeMillis]

(***************************************************************************)
(* Subscription collection.                                                *)
(***************************************************************************)
\* Paths declared required: true in subscriptionSchema.
RequiredPaths ==
  {"userId", "subscriptionId", "productId", "purchaseToken", "tier",
   "startDate", "expiryDate", "paymentState", "priceAmount",
   "priceCurrency", "countryCode", "orderId"}

\* Key of a document in the unique orderId index: a document without the
\* field is indexed under null.
OrderIdKey(doc) == IF "orderId" \in doc.absent THEN "null" ELSE doc.orderId

\* subscriptionSchema.index({orderId: 1}, {unique: true}) and
\* subscriptionSchema.index({purchaseToken: 1}, {unique: true}).
UniqueIndexesHold(coll) ==
  \A i, j \in DOMAIN coll :
    i # j => /\ OrderIdKey(coll[i]) # OrderIdKey(coll[j])
             /\ coll[i].purchaseToken # coll[j].purchaseToken

\* Validation run by document.save(): every required path must be present.
ValidateRequired(doc) == RequiredPaths \cap doc.absent = {}

\* Index of the first of the matching documents, 0 when there is none
\* (Model.findOne returns null).
FirstIndex(matching) ==
  IF matching # {}
  THEN CHOOSE i \in matching : \A j \in matching : i <= j
  ELSE 0

\* subscription.save(): rejected by validation or by a unique index,
\* otherwise the document replaces the stored one.
Save(coll, i, doc) ==
  LET written == [coll EXCEPT ![i] = doc]
  IN IF ValidateRequired(doc) /\ UniqueIndexesHold(written)
     THEN [coll |-> written, threw |-> FALSE]
     ELSE [coll |-> coll, threw |-> TRUE]

\* As findOneAndUpdate, with the update of a matched document committed in
\* two phases of which the request reaches the first: status and startDate
\* are written, the other paths are left for a later write.
findOneAndUpdate_FirstPhase(coll, userId, subscriptionId, purchaseToken, vr, t) ==
  LET i == FirstIndex({k \in DOMAIN coll :
                         /\ coll[k].userId = userId
                         /\ coll[k].subscriptionId = subscriptionId})
      updated ==
        [coll EXCEPT ![i] = [@ EXCEPT !.status = "active", !.startDate = t]]
      inserted ==
        Append(coll,
          [userId |-> userId,
           subscriptionId |-> subscriptionId,
           productId |-> subscriptionId,
           purchaseToken |-> purchaseToken,
           tier |-> vr.tier,
           status |-> "active",
           startDate |-> t,
           expiryDate |-> vr.expiryDate,
           autoRenewing |-> TRUE,
           absent |-> {"paymentState", "priceAmount", "priceCurrency",
                       "countryCode", "orderId"}])
      result == IF i = 0 THEN inserted ELSE updated
  IN IF UniqueIndexesHold(result)
     THEN [coll |-> result, ok |-> TRUE]
     ELSE [coll |-> coll, ok |-> FALSE]

\* Subscription.findOneAndUpdate({userId, subscriptionId}, {...},
\* {upsert: true, new: true}) of verifyAndSaveSubscription. The update
\* names nine paths; an inserted document has no other path of its own, so
\* absent lists the required paths it lacks.
findOneAndUpdate(coll, userId, subscriptionId, purchaseToken, vr, t) ==
  LET i == FirstIndex({k \in DOMAIN coll :
                         /\ coll[k].userId = userId
                         /\ coll[k].subscriptionId = subscriptionId})
      updated ==
        [coll EXCEPT ![i] =
           [@ EXCEPT !.productId = subscriptionId,
                     !.purchaseToken = purchaseToken,
                     !.tier = vr.tier,
                     !.status = "active",
                     !.startDate = t,
                     !.expiryDate = vr.expiryDate,
                     !.autoRenewing = TRUE]]
      inserted ==
        Append(coll,
          [userId |-> userId,
           subscriptionId |-> subscriptionId,
           productId |-> subscriptionId,
           purchaseToken |-> purchaseToken,
           tier |-> vr.tier,
           status |-> "active",
           startDate |-> t,
           expiryDate |-> vr.expiryDate,
           autoRenewing |-> TRUE,
           absent |-> {"paymentState", "priceAmount", "priceCurrency",
                       "countryCode", "orderId"}])
      result == IF i = 0 THEN inserted ELSE updated
  IN IF UniqueIndexesHold(result)
     THEN [coll |-> result, ok |-> TRUE]
     ELSE [coll |-> coll, ok |-> FALSE]

(***************************************************************************)
(* Subscription controller.                                                *)
(***************************************************************************)
\* As verifyAndSaveSubscription, with the upsert moved in front of the
\* isValid test.
verifyAndSaveSubscription_UpsertFirst(coll, userId, subscriptionId, purchaseToken, presp, ackOk, t) ==
  LET vr == verifySubscription(presp, subscriptionId, t)
      up == findOneAndUpdate(coll, userId, subscriptionId, purchaseToken,
                             vr, t)
  IN IF vr.threw # 0
     THEN [coll |-> coll, status |-> vr.threw, verifyCalls |-> 1,
           ackCalls |-> 0]
     ELSE IF ~up.ok
     THEN [coll |-> coll, status |-> 500, verifyCalls |-> 1, ackCalls |-> 0]
     ELSE IF ~vr.isValid
     THEN [coll |-> up.coll, status |-> 400, verifyCalls |-> 1,
           ackCalls |-> 0]
     ELSE IF ~ackOk
     THEN [coll |-> up.coll, status |-> 500, verifyCalls |-> 1,
           ackCalls |-> 1]
     ELSE [coll |-> up.coll, status |-> 200, verifyCalls |-> 1,
           ackCalls |-> 1]

\* As verifyAndSaveSubscription, with the upsert undone when the
\* acknowledgement fails.
verifyAndSaveSubscription_Rollback(coll, userId, subscriptionId, purchaseToken, presp, ackOk, t) ==
  LET vr == verifySubscription(presp, subscriptionId, t)
      up == findOneAndUpdate(coll, userId, subscriptionId, purchaseToken,
                             vr, t)
  IN IF vr.threw # 0
     THEN [coll |-> coll, status |-> vr.threw, verifyCalls |-> 1,
           ackCalls |-> 0]
     ELSE IF ~vr.isValid
     THEN [coll |-> coll, status |-> 400, verifyCalls |-> 1, ackCalls |-> 0]
     ELSE IF ~up.ok
     THEN [coll |-> coll, status |-> 500, verifyCalls |-> 1, ackCalls |-> 0]
     ELSE IF ~ackOk
     THEN [coll |-> coll, status |-> 500, verifyCalls |-> 1, ackCalls |-> 1]
     ELSE [coll |-> up.coll, status |-> 200, verifyCalls |-> 1,
           ackCalls |-> 1]

\* status is the HTTP status sent, or the statusCode of the CustomError the
\* handler throws to the boundary layer.
verifyAndSaveSubscription(coll, userId, subscriptionId, purchaseToken, presp, ackOk, t) ==
  LET vr == verifySubscription(presp, subscriptionId, t)
      up == findOneAndUpdate(coll, userId, subscriptionId, purchaseToken,
                             vr, t)
  IN IF vr.threw # 0
     THEN [coll |-> coll, status |-> vr.threw, verifyCalls |-> 1,
           ackCalls |-> 0]
     ELSE IF ~vr.isValid
     THEN [coll |-> coll, status |-> 400, verifyCalls |-> 1, ackCalls |-> 0]
     ELSE IF ~up.ok
     THEN [coll |-> coll, status |-> 500, verifyCalls |-> 1, ackCalls |-> 0]
     ELSE IF ~ackOk
     THEN [coll |-> up.coll, status |-> 500, verifyCalls |-> 1,
           ackCalls |-> 1]
     ELSE [coll |-> up.coll, status |-> 200, verifyCalls |-> 1,
           ackCalls |-> 1]

\* As cancelSubscription, with the lookup not restricted to status active.
cancelSubscription_AnyStatus(coll, userId) ==
  LET i == FirstIndex({k \in DOMAIN coll : coll[k].userId = userId})
  IN IF i = 0 THEN [coll |-> coll, status |-> 404]
     ELSE [coll |-> [coll EXCEPT ![i] = [@ EXCEPT !.status = "cancelled",
                                                  !.autoRenewing = FALSE]],
           status |-> 200]

cancelSubscription(coll, userId) ==
  LET i == FirstIndex({k \in DOMAIN coll : /\ coll[k].userId = userId
                                            /\ coll[k].status = "active"})
      sv == Save(coll, i, [coll[i] EXCEPT !.status = "cancelled",
                                          !.autoRenewing = FALSE])
  IN IF i = 0 THEN [coll |-> coll, status |-> 404]
     ELSE IF sv.threw THEN [coll |-> coll, status |-> 500]
     ELSE [coll |-> sv.coll, status |-> 200]

\* As checkSubscription, without the comparison of the tier.
checkSubscription_AnyTier(coll, userId, requiredTier, t) ==
  LET i == FirstIndex({k \in DOMAIN coll : /\ coll[k].userId = userId
                                            /\ coll[k].status = "active"
                                            /\ coll[k].expiryDate > t})
  IN IF i = 0 THEN [status |-> 403] ELSE [status |-> 200]

\* The middleware checkSubscription(requiredTier): 200 stands for next(),
\* the request going on to its controller.
checkSubscription(coll, userId, requiredTier, t) ==
  LET i == FirstIndex({k \in DOMAIN coll : /\ coll[k].userId = userId
                                            /\ coll[k].status = "active"
                                            /\ coll[k].expiryDate > t})
  IN IF i = 0 THEN [status |-> 403]
     ELSE IF requiredTier = "premium" /\ coll[i].tier # "premium"
     THEN [status |-> 403]
     ELSE [status |-> 200]

\* Subscription.findOne({subscriptionId}) of the webhook handlers.
FindBySubscriptionId(coll, subscriptionId) ==
  FirstIndex({k \in DOMAIN coll : coll[k].subscriptionId = subscriptionId})

\* Shared shape of handleSubscriptionRenewal / Recovery / Restart /
\* Proration / Deferral: document i was looked up and re-verified with result
\* vr; on a valid result the document is saved as changed.
ReverifyAndSave(coll, i, vr, changed) ==
  LET sv == Save(coll, i, changed)
  IN IF i = 0 THEN [coll |-> coll, threw |-> FALSE, verifyCalls |-> 0]
     ELSE IF vr.threw # 0
     THEN [coll |-> coll, threw |-> TRUE, verifyCalls |-> 1]
     ELSE IF vr.isValid
     THEN [coll |-> sv.coll, threw |-> sv.threw, verifyCalls |-> 1]
     ELSE [coll |-> coll, threw |-> FALSE, verifyCalls |-> 1]

handleSubscriptionRenewal(coll, subscriptionId, presp, t) ==
  LET i == FindBySubscriptionId(coll, subscriptionId)
      vr == verifySubscription(presp, subscriptionId, t)
  IN ReverifyAndSave(coll, i, vr, [coll[i] EXCEPT !.status = "active",
                                             !.expiryDate = vr.expiryDate,
                                             !.autoRenewing = TRUE])

\* As handleSubscriptionExpiry, without the return on a missing document:
\* the assignment to null throws.
handleSubscriptionExpiry_NoGuard(coll, subscriptionId) ==
  LET i == FindBySubscriptionId(coll, subscriptionId)
      sv == Save(coll, i, [coll[i] EXCEPT !.status = "expired",
                                          !.autoRenewing = FALSE])
  IN IF i = 0 THEN [coll |-> coll, threw |-> TRUE, verifyCalls |-> 0]
     ELSE [coll |-> sv.coll, threw |-> sv.threw, verifyCalls |-> 0]

handleSubscriptionExpiry(coll, subscriptionId) ==
  LET i == FindBySubscriptionId(coll, subscriptionId)
      sv == Save(coll, i, [coll[i] EXCEPT !.status = "expired",
                                          !.autoRenewing = FALSE])
  IN IF i = 0 THEN [coll |-> coll, threw |-> FALSE, verifyCalls |-> 0]
     ELSE [coll |-> sv.coll, threw |-> sv.threw, verifyCalls |-> 0]

handleSubscriptionRecovery(coll, subscriptionId, presp, t) ==
  LET i == FindBySubscriptionId(coll, subscriptionId)
      vr == verifySubscription(presp, subscriptionId, t)
  IN ReverifyAndSave(coll, i, vr, [coll[i] EXCEPT !.status = "active",
                                             !.expiryDate = vr.expiryDate])

handleSubscriptionPause(coll, subscriptionId) ==
  LET i == FindBySubscriptionId(coll, subscriptionId)
      sv == Save(coll, i, [coll[i] EXCEPT !.status = "paused"])
  IN IF i = 0 THEN [coll |-> coll, threw |-> FALSE, verifyCalls |-> 0]
     ELSE [coll |-> sv.coll, threw |-> sv.threw, verifyCalls |-> 0]

handleSubscriptionRestart(coll, subscriptionId, presp, t) ==
  LET i == FindBySubscriptionId(coll, subscriptionId)
      vr == verifySubscription(presp, subscriptionId, t)
  IN ReverifyAndSave(coll, i, vr, [coll[i] EXCEPT !.status = "active",
                                             !.expiryDate = vr.expiryDate])

handleSubscriptionProration(coll, subscriptionId, presp, t) ==
  LET i == FindBySubscriptionId(coll, subscriptionId)
      vr == verifySubscription(presp, subscriptionId, t)
  IN ReverifyAndSave(coll, i, vr, [coll[i] EXCEPT !.expiryDate = vr.expiryDate])

handleSubscriptionDeferral(coll, subscriptionId, presp, t) ==
  LET i == FindBySubscriptionId(coll, subscriptionId)
      vr == verifySubscription(presp, subscriptionId, t)
  IN ReverifyAndSave(coll, i, vr, [coll[i] EXCEPT !.expiryDate = vr.expiryDate])

ReverifyingTypes ==
  {"SUBSCRIPTION_PURCHASED", "SUBSCRIPTION_RENEWED", "SUBSCRIPTION_RECOVERED",
   "SUBSCRIPTION_RESTARTED", "SUBSCRIPTION_PRORATED", "SUBSCRIPTION_DEFERRED"}

WritingTypes ==
  {"SUBSCRIPTION_EXPIRED", "SUBSCRIPTION_CANCELED", "SUBSCRIPTION_PAUSED"}

\* The nine handled values and one value the switch does not handle.
NotificationTypes ==
  ReverifyingTypes \cup WritingTypes \cup {"SUBSCRIPTION_ON_HOLD"}

\* The switch of handleSubscriptionWebhook.
\* As Dispatch, with the default case handled as a renewal.
Dispatch_DefaultRenews(coll, notificationType, subscriptionId, presp, t) ==
  CASE notificationType \in {"SUBSCRIPTION_EXPIRED", "SUBSCRIPTION_CANCELED"}
         -> handleSubscriptionExpiry(coll, subscriptionId)
    [] notificationType = "SUBSCRIPTION_RECOVERED"
         -> handleSubscriptionRecovery(coll, subscriptionId, presp, t)
    [] notificationType = "SUBSCRIPTION_PAUSED"
         -> handleSubscriptionPause(coll, subscriptionId)
    [] notificationType = "SUBSCRIPTION_RESTARTED"
         -> handleSubscriptionRestart(coll, subscriptionId, presp, t)
    [] notificationType = "SUBSCRIPTION_PRORATED"
         -> handleSubscriptionProration(coll, subscriptionId, presp, t)
    [] notificationType = "SUBSCRIPTION_DEFERRED"
         -> handleSubscriptionDeferral(coll, subscriptionId, presp, t)
    [] OTHER -> handleSubscriptionRenewal(coll, subscriptionId, presp, t)

Dispatch(coll, notificationType, subscriptionId, presp, t) ==
  CASE notificationType \in {"SUBSCRIPTION_PURCHASED", "SUBSCRIPTION_RENEWED"}
         -> handleSubscriptionRenewal(coll, subscriptionId, presp, t)
    [] notificationType \in {"SUBSCRIPTION_EXPIRED", "SUBSCRIPTION_CANCELED"}
         -> handleSubscriptionExpiry(coll, subscriptionId)
    [] notificationType = "SUBSCRIPTION_RECOVERED"
         -> handleSubscriptionRecovery(coll, subscriptionId, presp, t)
    [] notificationType = "SUBSCRIPTION_PAUSED"
         -> handleSubscriptionPause(coll, subscriptionId)
    [] notificationType = "SUBSCRIPTION_RESTARTED"
         -> handleSubscriptionRestart(coll, subscriptionId, presp, t)
    [] notificationType = "SUBSCRIPTION_PRORATED"
         -> handleSubscriptionProration(coll, subscriptionId, presp, t)
    [] notificationType = "SUBSCRIPTION_DEFERRED"
         -> handleSubscriptionDeferral(coll, subscriptionId, presp, t)
    [] OTHER -> [coll |-> coll, threw |-> FALSE, verifyCalls |-> 0]

\* As handleSubscriptionWebhook, with the errors of the handlers logged and
\* answered 200.
handleSubscriptionWebhook_Swallow(coll, decodes, notificationType, subscriptionId, presp, t) ==
  LET r == Dispatch(coll, notificationType, subscriptionId, presp, t)
  IN IF ~decodes
     THEN [coll |-> coll, status |-> 500, verifyCalls |-> 0]
     ELSE [coll |-> r.coll, status |-> 200, verifyCalls |-> r.verifyCalls]

\* decodes is FALSE when JSON.parse(Buffer.from(message.data, 'base64'))
\* throws; every throw inside the try block is answered 500.
handleSubscriptionWebhook(coll, decodes, notificationType, subscriptionId, presp, t) ==
  LET r == Dispatch(coll, notificationType, subscriptionId, presp, t)
  IN IF ~decodes
     THEN [coll |-> coll, status |-> 500, verifyCalls |-> 0]
     ELSE [coll |-> r.coll,
           status |-> IF r.threw THEN 500 ELSE 200,
           verifyCalls |-> r.verifyCalls]

(***************************************************************************)
(* DeviceToken collection and controller.                                  *)
(*                                                                         *)
(* The collection is the set of its documents. A document is identified by *)
(* its token value, which no operation modifies. deviceType, deviceId and  *)
(* lastUsed are stored and never read by the operations modelled; they are *)
(* left out.                                                               *)
(***************************************************************************)
\* DeviceToken.findOne({token}): the matching documents, {} for null.
findOneDeviceToken(coll, token) == {d \in coll : d.token = token}

\* As insertDeviceToken, on a collection without the unique index on token.
insertDeviceToken_NoIndex(coll, doc) ==
  [coll |-> coll \cup {doc}, threw |-> FALSE]

\* save() of a new document: an insert, rejected with a duplicate key error
\* by deviceTokenSchema.index({token: 1}, {unique: true}).
insertDeviceToken(coll, doc) ==
  IF \E d \in coll : d.token = doc.token
  THEN [coll |-> coll, threw |-> TRUE]
  ELSE [coll |-> coll \cup {doc}, threw |-> FALSE]

\* save() of a loaded document: an update of the stored document that sets
\* the paths whose value differs from the one loaded.
updateDeviceToken(coll, loaded, changed) ==
  {IF d.token = loaded.token
   THEN [d EXCEPT !.userId = IF changed.userId # loaded.userId
                             THEN changed.userId ELSE @,
                  !.isActive = IF changed.isActive # loaded.isActive
                               THEN changed.isActive ELSE @]
   ELSE d : d \in coll}

\* As registerSave, with the owner of an existing document left alone.
registerSave_KeepOwner(coll, userId, token, found) ==
  LET loaded == CHOOSE d \in found : TRUE
      created == insertDeviceToken(coll,
                   [userId |-> userId, token |-> token, isActive |-> TRUE])
  IN IF found # {}
     THEN [coll |-> updateDeviceToken(coll, loaded,
                      [loaded EXCEPT !.isActive = TRUE]),
           status |-> 200]
     ELSE IF created.threw THEN [coll |-> coll, status |-> 500]
     ELSE [coll |-> created.coll, status |-> 200]

\* registerDeviceToken from the result of its lookup on: found is what
\* findOne returned.
registerSave(coll, userId, token, found) ==
  LET loaded == CHOOSE d \in found : TRUE
      created == insertDeviceToken(coll,
                   [userId |-> userId, token |-> token, isActive |-> TRUE])
  IN IF found # {}
     THEN [coll |-> updateDeviceToken(coll, loaded,
                      [loaded EXCEPT !.userId = userId, !.isActive = TRUE]),
           status |-> 200]
     ELSE IF created.threw THEN [coll |-> coll, status |-> 500]
     ELSE [coll |-> created.coll, status |-> 200]

\* A register request that no other request overlaps.
registerDeviceToken(coll, userId, token) ==
  registerSave(coll, userId, token, findOneDeviceToken(coll, token))

\* DeviceToken.findOne({token, userId}).
findOneOwnedDeviceToken(coll, userId, token) ==
  {d \in coll : d.token = token /\ d.userId = userId}

\* unregisterDeviceToken from the result of its lookup on.
unregisterSave(coll, found) ==
  LET loaded == CHOOSE d \in found : TRUE
  IN IF found = {} THEN [coll |-> coll, status |-> 404]
     ELSE [coll |-> updateDeviceToken(coll, loaded,
                      [loaded EXCEPT !.isActive = FALSE]),
           status |-> 200]

\* An unregister request that no other request overlaps.
unregisterDeviceToken(coll, userId, token) ==
  unregisterSave(coll, findOneOwnedDeviceToken(coll, userId, token))

(***************************************************************************)
(* NotificationPreferences collection and controller.                      *)
(*                                                                         *)
(* The collection is the set of its documents; userId is unique: true in   *)
(* notificationPreferencesSchema.                                          *)
(***************************************************************************)
\* The defaults of notificationPreferencesSchema.
DefaultPreferences(userId) ==
  [userId |-> userId,
   newWallpapers |-> TRUE,
   trendingWallpapers |-> TRUE,
   subscriptionUpdates |-> TRUE,
   systemUpdates |-> TRUE,
   marketingUpdates |-> FALSE,
   quietHours |-> [enabled |-> FALSE, startTime |-> "22:00",
                   endTime |-> "08:00", timezone |-> "UTC"]]

\* NotificationPreferences.findOne({userId}): the matching documents, {}
\* for null.
findOnePreferences(coll, userId) == {d \in coll : d.userId = userId}

HasPreferences(coll, userId) == findOnePreferences(coll, userId) # {}

\* The document findOne returns.
PreferencesOf(coll, userId) ==
  CHOOSE d \in findOnePreferences(coll, userId) : TRUE

\* As createPreferences, on a collection without the unique index on userId.
createPreferences_NoIndex(coll, doc) ==
  [coll |-> coll \cup {doc}, threw |-> FALSE]

\* NotificationPreferences.create(doc): an insert, rejected with a duplicate
\* key error by the unique index of userId.
createPreferences(coll, doc) ==
  IF HasPreferences(coll, doc.userId)
  THEN [coll |-> coll, threw |-> TRUE]
  ELSE [coll |-> coll \cup {doc}, threw |-> FALSE]

\* getNotificationPreferences from the result of its lookup on: found is
\* what findOne returned.
getPreferencesCreate(coll, userId, found) ==
  LET created == createPreferences(coll, DefaultPreferences(userId))
  IN IF found # {} THEN [coll |-> coll, status |-> 200]
     ELSE IF created.threw THEN [coll |-> coll, status |-> 500]
     ELSE [coll |-> created.coll, status |-> 200]

\* A read of the preferences that no other request overlaps.
getNotificationPreferences(coll, userId) ==
  getPreferencesCreate(coll, userId, findOnePreferences(coll, userId))

\* findOneAndUpdate({userId}, {$set: ...}, {new: true, upsert: true}): the
\* document of the user, or the schema defaults when there is none, replaced
\* by changed.
upsertPreferences(coll, userId, changed) ==
  (coll \ findOnePreferences(coll, userId)) \cup {changed}

\* updates sets one switch.
updateNotificationPreferences(coll, userId, category, value) ==
  LET old == IF HasPreferences(coll, userId) THEN PreferencesOf(coll, userId)
             ELSE DefaultPreferences(userId)
  IN [coll |-> upsertPreferences(coll, userId,
                                 [old EXCEPT ![category] = value]),
      status |-> 200]

updateQuietHours(coll, userId, quietHours) ==
  LET old == IF HasPreferences(coll, userId) THEN PreferencesOf(coll, userId)
             ELSE DefaultPreferences(userId)
  IN [coll |-> upsertPreferences(coll, userId,
                                 [old EXCEPT !.quietHours = quietHours]),
      status |-> 200]

(***************************************************************************)
(* Quiet hours (timeUtils.ts). A Date is the number of minutes since       *)
(* 00:00 of day 0 on the wall clock it is read on.                         *)
(***************************************************************************)
\* Offset of the zone from UTC, in minutes.
TimezoneOffset(timezone) ==
  CASE timezone = "UTC" -> 0
    [] timezone = "Asia/Dhaka" -> 360

toZonedTime(date, timezone) == date + TimezoneOffset(timezone)

\* "HH:mm".split(':').map(Number)
SplitTime(text) ==
  CASE text = "08:00" -> <<8, 0>>
    [] text = "22:00" -> <<22, 0>>

\* date.setHours(h, m, 0, 0): same calendar day, given time of day.
setHours(date, h, m) ==
  (date \div MinutesPerDay) * MinutesPerDay + h * MinutesPerHour + m

\* As isWithinQuietHours, with the end of the window excluded.
isWithinQuietHours_ExclusiveEnd(quietHours, t) ==
  IF ~quietHours.enabled THEN FALSE
  ELSE
    LET userTime == toZonedTime(t, quietHours.timezone)
        start == SplitTime(quietHours.startTime)
        end == SplitTime(quietHours.endTime)
        startTime == setHours(userTime, start[1], start[2])
        endTime0 == setHours(userTime, end[1], end[2])
        endTime == IF endTime0 < startTime THEN endTime0 + MinutesPerDay
                   ELSE endTime0
    IN userTime >= startTime /\ userTime < endTime

isWithinQuietHours(quietHours, t) ==
  IF ~quietHours.enabled THEN FALSE
  ELSE
    LET userTime == toZonedTime(t, quietHours.timezone)
        start == SplitTime(quietHours.startTime)
        end == SplitTime(quietHours.endTime)
        startTime == setHours(userTime, start[1], start[2])
        endTime0 == setHours(userTime, end[1], end[2])
        endTime == IF endTime0 < startTime THEN endTime0 + MinutesPerDay
                   ELSE endTime0
    IN userTime >= startTime /\ userTime <= endTime

(***************************************************************************)
(* NotificationService.                                                    *)
(***************************************************************************)
\* One call of the Push Delivery Client with the given tokens; pushOk is
\* FALSE when firebase-admin throws. calls lists the token sets handed to
\* the client, threw tells whether CustomError(500) leaves the method.
sendMulticastNotification(tokenSet, pushOk) ==
  [calls |-> <<tokenSet>>, threw |-> ~pushOk]

\* As ActiveTokens, without the isActive filter.
ActiveTokens_AnyState(coll, userId) ==
  {d.token : d \in {d \in coll : d.userId = userId}}

\* DeviceToken.find({userId, isActive: true}) mapped to the token values.
ActiveTokens(coll, userId) ==
  {d.token : d \in {d \in coll : d.userId = userId /\ d.isActive}}

\* As sendNotificationToUser, deciding on the schema defaults when the user
\* has no preferences document.
sendNotificationToUser_DefaultsWhenAbsent(tokenColl, prefColl, userId, type, pushOk, t) ==
  LET preferences == IF HasPreferences(prefColl, userId)
                     THEN PreferencesOf(prefColl, userId)
                     ELSE DefaultPreferences(userId)
      deviceTokens == ActiveTokens(tokenColl, userId)
      sent == sendMulticastNotification(deviceTokens, pushOk)
  IN IF ~preferences[type] THEN [result |-> "null", calls |-> << >>]
     ELSE IF /\ preferences.quietHours.enabled
             /\ isWithinQuietHours(preferences.quietHours, t)
     THEN [result |-> "null", calls |-> << >>]
     ELSE IF deviceTokens = {} THEN [result |-> "null", calls |-> << >>]
     ELSE IF sent.threw THEN [result |-> "null", calls |-> sent.calls]
     ELSE [result |-> "response", calls |-> sent.calls]

\* As sendNotificationToUser, without the test of the category switch.
sendNotificationToUser_NoTypeCheck(tokenColl, prefColl, userId, type, pushOk, t) ==
  LET preferences == PreferencesOf(prefColl, userId)
      deviceTokens == ActiveTokens(tokenColl, userId)
      sent == sendMulticastNotification(deviceTokens, pushOk)
  IN IF ~HasPreferences(prefColl, userId)
     THEN [result |-> "null", calls |-> << >>]
     ELSE IF /\ preferences.quietHours.enabled
             /\ isWithinQuietHours(preferences.quietHours, t)
     THEN [result |-> "null", calls |-> << >>]
     ELSE IF deviceTokens = {} THEN [result |-> "null", calls |-> << >>]
     ELSE IF sent.threw THEN [result |-> "null", calls |-> sent.calls]
     ELSE [result |-> "response", calls |-> sent.calls]

sendNotificationToUser(tokenColl, prefColl, userId, type, pushOk, t) ==
  LET preferences == PreferencesOf(prefColl, userId)
      deviceTokens == ActiveTokens(tokenColl, userId)
      sent == sendMulticastNotification(deviceTokens, pushOk)
  IN IF ~HasPreferences(prefColl, userId)
     THEN [result |-> "null", calls |-> << >>]
     ELSE IF ~preferences[type] THEN [result |-> "null", calls |-> << >>]
     ELSE IF /\ preferences.quietHours.enabled
             /\ isWithinQuietHours(preferences.quietHours, t)
     THEN [result |-> "null", calls |-> << >>]
     ELSE IF deviceTokens = {} THEN [result |-> "null", calls |-> << >>]
     ELSE IF sent.threw THEN [result |-> "null", calls |-> sent.calls]
     ELSE [result |-> "response", calls |-> sent.calls]

(***************************************************************************)
(* Initial state and the requests.                                         *)
(*                                                                         *)
(* last is what the most recent request showed to the outside: the request *)
(* (op and the arguments that select the record), what the Billing         *)
(* Verification Client returned to it (threw, isValid), how often the      *)
(* clients were called (verifyCalls, ackCalls, calls), and the status      *)
(* answered or value returned.                                             *)
(***************************************************************************)
NoRequest ==
  [op |-> "none", user |-> "-", subscriptionId |-> "-",
   notificationType |-> "-", decodes |-> TRUE, threw |-> 0,
   isValid |-> FALSE, status |-> 0, verifyCalls |-> 0, ackCalls |-> 0,
   expiryDate |-> 0, category |-> "-", result |-> "-", calls |-> << >>,
   token |-> "-", reassigned |-> FALSE, target |-> "-",
   requiredTier |-> "-"]

NoProviderResponse ==
  [kind |-> "error", paymentState |-> 0, expiryTimeMillis |-> NoExpiry]

Init ==
  /\ subs = << >>
  /\ tokens = {}
  /\ prefs = {}
  /\ now = FirstInstant
  /\ last = NoRequest
  /\ inflight = {}

\* target is the purchaseToken of the document the upsert matched, "-" when
\* it matched none or was not reached.
VerifyAndSave(u, sid, tok, presp, ackOk) ==
  LET r == verifyAndSaveSubscription(subs, u, sid, tok, presp, ackOk, now)
      vr == verifySubscription(presp, sid, now)
      i == FirstIndex({k \in DOMAIN subs : /\ subs[k].userId = u
                                            /\ subs[k].subscriptionId = sid})
  IN /\ subs' = r.coll
     /\ last' = [NoRequest EXCEPT !.op = "verify", !.user = u,
                   !.subscriptionId = sid, !.token = tok,
                   !.target =
                     IF i # 0 /\ vr.threw = 0 /\ vr.isValid
                     THEN subs[i].purchaseToken ELSE "-",
                   !.threw = vr.threw,
                   !.isValid = vr.isValid, !.expiryDate = vr.expiryDate,
                   !.status = r.status, !.verifyCalls = r.verifyCalls,
                   !.ackCalls = r.ackCalls]
     /\ UNCHANGED <<tokens, prefs, now, inflight>>

Cancel(u) ==
  LET r == cancelSubscription(subs, u)
  IN /\ subs' = r.coll
     /\ last' = [NoRequest EXCEPT !.op = "cancel", !.user = u,
                   !.status = r.status]
     /\ UNCHANGED <<tokens, prefs, now, inflight>>

\* A request to a route guarded by checkSubscription(requiredTier).
CheckSubscription(u, requiredTier) ==
  LET r == checkSubscription(subs, u, requiredTier, now)
  IN /\ last' = [NoRequest EXCEPT !.op = "gate", !.user = u,
                   !.requiredTier = requiredTier, !.status = r.status]
     /\ UNCHANGED <<subs, tokens, prefs, now, inflight>>

\* The purchaseToken and packageName of the event are handed to the Billing
\* Verification Client and used for nothing else; the client's answer is
\* presp. target is the purchaseToken of the document the handler found and
\* went on with, "-" when it returned or there was no handler.
Webhook(ntype, sid, tok, presp) ==
  LET r == handleSubscriptionWebhook(subs, TRUE, ntype, sid, presp, now)
      vr == verifySubscription(presp, sid, now)
      i == FindBySubscriptionId(subs, sid)
  IN /\ subs' = r.coll
     /\ last' = [NoRequest EXCEPT !.op = "webhook",
                   !.notificationType = ntype, !.subscriptionId = sid,
                   !.token = tok,
                   !.target =
                     IF i # 0 /\ ntype \in ReverifyingTypes \cup WritingTypes
                     THEN subs[i].purchaseToken ELSE "-",
                   !.threw = IF r.verifyCalls = 0 THEN 0 ELSE vr.threw,
                   !.isValid = (r.verifyCalls # 0 /\ vr.isValid),
                   !.expiryDate =
                     IF r.verifyCalls = 0 THEN 0 ELSE vr.expiryDate,
                   !.status = r.status, !.verifyCalls = r.verifyCalls]
     /\ UNCHANGED <<tokens, prefs, now, inflight>>

\* An envelope whose message.data is not base64 of a JSON object.
WebhookUndecodable ==
  LET r == handleSubscriptionWebhook(subs, FALSE, "-", "-",
                                     NoProviderResponse, now)
  IN /\ subs' = r.coll
     /\ last' = [NoRequest EXCEPT !.op = "webhook", !.decodes = FALSE,
                   !.status = r.status, !.verifyCalls = r.verifyCalls]
     /\ UNCHANGED <<tokens, prefs, now, inflight>>

\* reassigned tells that the lookup found the token with another owner.
RegisterDeviceToken(u, t) ==
  LET r == registerDeviceToken(tokens, u, t)
  IN /\ tokens' = r.coll
     /\ last' = [NoRequest EXCEPT !.op = "register", !.user = u,
                   !.token = t, !.status = r.status,
                   !.reassigned =
                     (\E d \in findOneDeviceToken(tokens, t) :
                        d.userId # u)]
     /\ UNCHANGED <<subs, prefs, now, inflight>>

UnregisterDeviceToken(u, t) ==
  LET r == unregisterDeviceToken(tokens, u, t)
  IN /\ tokens' = r.coll
     /\ last' = [NoRequest EXCEPT !.op = "unregister", !.user = u,
                   !.token = t, !.status = r.status]
     /\ UNCHANGED <<subs, prefs, now, inflight>>

(***************************************************************************)
(* Overlapping token requests. Each controller awaits its findOne and then *)
(* its save(); between the two, other requests run. inflight holds the     *)
(* requests that have read and not yet written, each with what it read.    *)
(***************************************************************************)
RegisterFind(u, t) ==
  /\ Cardinality(inflight) < MaxInFlight
  /\ inflight' = inflight \cup
       {[op |-> "register", user |-> u, token |-> t,
         found |-> findOneDeviceToken(tokens, t)]}
  /\ UNCHANGED <<subs, tokens, prefs, now, last>>

RegisterSave(req) ==
  LET r == registerSave(tokens, req.user, req.token, req.found)
  IN /\ req.op = "register"
     /\ tokens' = r.coll
     /\ inflight' = inflight \ {req}
     /\ last' = [NoRequest EXCEPT !.op = "register", !.user = req.user,
                   !.token = req.token, !.status = r.status,
                   !.reassigned = (\E d \in req.found : d.userId # req.user)]
     /\ UNCHANGED <<subs, prefs, now>>

UnregisterFind(u, t) ==
  /\ Cardinality(inflight) < MaxInFlight
  /\ inflight' = inflight \cup
       {[op |-> "unregister", user |-> u, token |-> t,
         found |-> findOneOwnedDeviceToken(tokens, u, t)]}
  /\ UNCHANGED <<subs, tokens, prefs, now, last>>

UnregisterSave(req) ==
  LET r == unregisterSave(tokens, req.found)
  IN /\ req.op = "unregister"
     /\ tokens' = r.coll
     /\ inflight' = inflight \ {req}
     /\ last' = [NoRequest EXCEPT !.op = "unregister", !.user = req.user,
                   !.token = req.token, !.status = r.status]
     /\ UNCHANGED <<subs, prefs, now>>

GetNotificationPreferences(u) ==
  LET r == getNotificationPreferences(prefs, u)
  IN /\ prefs' = r.coll
     /\ last' = [NoRequest EXCEPT !.op = "getPreferences", !.user = u,
                   !.status = r.status]
     /\ UNCHANGED <<subs, tokens, now, inflight>>

UpdateNotificationPreferences(u, category, value) ==
  LET r == updateNotificationPreferences(prefs, u, category, value)
  IN /\ prefs' = r.coll
     /\ last' = [NoRequest EXCEPT !.op = "updatePreferences", !.user = u,
                   !.status = r.status]
     /\ UNCHANGED <<subs, tokens, now, inflight>>

UpdateQuietHours(u, quietHours) ==
  LET r == updateQuietHours(prefs, u, quietHours)
  IN /\ prefs' = r.coll
     /\ last' = [NoRequest EXCEPT !.op = "updateQuietHours", !.user = u,
                   !.status = r.status]
     /\ UNCHANGED <<subs, tokens, now, inflight>>

(***************************************************************************)
(* Overlapping preference requests. getNotificationPreferences awaits its  *)
(* findOne and then, when that found nothing, its create; a read that     *)
(* found the record answers without a further await. The two updates are   *)
(* one findOneAndUpdate each. id tells two pending reads of one user       *)
(* apart.                                                                  *)
(***************************************************************************)
PreferencesFind(u) ==
  LET found == findOnePreferences(prefs, u)
  IN IF found # {}
     THEN /\ last' = [NoRequest EXCEPT !.op = "getPreferences", !.user = u,
                        !.status = 200]
          /\ UNCHANGED <<subs, tokens, prefs, now, inflight>>
     ELSE /\ Cardinality(inflight) < MaxInFlight
          /\ inflight' = inflight \cup
               {[op |-> "getPreferences", user |-> u, token |-> "-",
                 found |-> found,
                 id |-> CHOOSE i \in 1..MaxInFlight :
                          \A r \in inflight : r.id # i]}
          /\ UNCHANGED <<subs, tokens, prefs, now, last>>

PreferencesCreate(req) ==
  LET r == getPreferencesCreate(prefs, req.user, req.found)
  IN /\ req.op = "getPreferences"
     /\ prefs' = r.coll
     /\ inflight' = inflight \ {req}
     /\ last' = [NoRequest EXCEPT !.op = "getPreferences", !.user = req.user,
                   !.status = r.status]
     /\ UNCHANGED <<subs, tokens, now>>

SendNotificationToUser(u, type, pushOk) ==
  LET r == sendNotificationToUser(tokens, prefs, u, type, pushOk, now)
  IN /\ last' = [NoRequest EXCEPT !.op = "notify", !.user = u,
                   !.category = type, !.result = r.result,
                   !.calls = r.calls]
     /\ UNCHANGED <<subs, tokens, prefs, now, inflight>>

\* Time passes between requests.
Tick ==
  /\ \E t \in Instants : t > now /\ now' = t
  /\ UNCHANGED <<subs, tokens, prefs, last, inflight>>

Next ==
  \/ \E u \in Users, sid \in SubscriptionIds, tok \in PurchaseTokens,
        presp \in ProviderResponses, ackOk \in BOOLEAN :
       VerifyAndSave(u, sid, tok, presp, ackOk)
  \/ \E u \in Users : Cancel(u)
  \/ \E u \in Users, requiredTier \in Tiers : CheckSubscription(u, requiredTier)
  \/ \E ntype \in NotificationTypes, sid \in SubscriptionIds,
        tok \in PurchaseTokens, presp \in ProviderResponses :
       Webhook(ntype, sid, tok, presp)
  \/ WebhookUndecodable
  \/ Tick

Spec == Init /\ [][Next]_vars

NextNotify ==
  \/ \E u \in Users, t \in DeviceTokens : RegisterDeviceToken(u, t)
  \/ \E u \in Users, t \in DeviceTokens : UnregisterDeviceToken(u, t)
  \/ \E u \in Users : GetNotificationPreferences(u)
  \/ \E u \in Users, category \in UpdatedCategories, value \in BOOLEAN :
       UpdateNotificationPreferences(u, category, value)
  \/ \E u \in Users, quietHours \in QuietHoursBodies :
       UpdateQuietHours(u, quietHours)
  \/ \E u \in Users, type \in NotifiedCategories, pushOk \in BOOLEAN :
       SendNotificationToUser(u, type, pushOk)
  \/ Tick

SpecNotify == Init /\ [][NextNotify]_vars

NextTokens ==
  \/ \E u \in Users, t \in DeviceTokens : RegisterFind(u, t)
  \/ \E req \in inflight : RegisterSave(req)
  \/ \E u \in Users, t \in DeviceTokens : UnregisterFind(u, t)
  \/ \E req \in inflight : UnregisterSave(req)

SpecTokens == Init /\ [][NextTokens]_vars

NextPrefs ==
  \/ \E u \in Users : PreferencesFind(u)
  \/ \E req \in inflight : PreferencesCreate(req)
  \/ \E u \in Users, category \in UpdatedCategories, value \in BOOLEAN :
       UpdateNotificationPreferences(u, category, value)
  \/ \E u \in Users, quietHours \in QuietHoursBodies :
       UpdateQuietHours(u, quietHours)
  \/ Tick

SpecPrefs == Init /\ [][NextPrefs]_vars

(***************************************************************************)
(* Properties.                                                             *)
(*                                                                         *)
(* A request leaves the clock alone and Tick changes nothing else, so a    *)
(* step with now' = now is a request (or stutters): in it the unprimed     *)
(* collections are the store the request found and last' is what it        *)
(* showed.                                                                 *)
(***************************************************************************)
RequestStep == now' = now

WebhookStep == RequestStep /\ last'.op = "webhook" /\ last'.decodes

NotifyStep == RequestStep /\ last'.op = "notify"

\* The documents of a user for a subscription id.
RecordsOf(coll, userId, subscriptionId) ==
  {i \in DOMAIN coll : /\ coll[i].userId = userId
                       /\ coll[i].subscriptionId = subscriptionId}

HasActive(coll, userId) ==
  \E i \in DOMAIN coll : coll[i].userId = userId /\ coll[i].status = "active"

\* The webhook event makes its handler write the document it found: always
\* for EXPIRED, CANCELED and PAUSED, on a valid result for the others.
WriteAttempted(ntype, isValid) ==
  \/ ntype \in WritingTypes
  \/ ntype \in ReverifyingTypes /\ isValid

\* Time of day, in minutes, on the wall clock of the zone.
LocalMinuteOfDay(t, timezone) == toZonedTime(t, timezone) % MinutesPerDay

MinuteOfDay(text) == SplitTime(text)[1] * MinutesPerHour + SplitTime(text)[2]

----------------------------------------------------------------------------
----------------------------------------------------------------------------
\* C2 (as claimed): on an existing record an EXPIRED event sets
\* status=expired and a CANCELED event sets status=cancelled; both set
\* autoRenewing=false, keep expiryDate and call no verification.
C2_ExpiredAndCanceledSetStatus ==
  [][(/\ WebhookStep
      /\ last'.notificationType \in
           {"SUBSCRIPTION_EXPIRED", "SUBSCRIPTION_CANCELED"}
      /\ FindBySubscriptionId(subs, last'.subscriptionId) # 0) =>
       LET i == FindBySubscriptionId(subs, last'.subscriptionId)
       IN /\ subs'[i].status =
               (IF last'.notificationType = "SUBSCRIPTION_EXPIRED"
                THEN "expired" ELSE "cancelled")
          /\ subs'[i].autoRenewing = FALSE
          /\ subs'[i].expiryDate = subs[i].expiryDate
          /\ last'.verifyCalls = 0]_vars

----------------------------------------------------------------------------
\* C3 (as claimed): a verify request whose verification is valid leaves
\* exactly one record for (userId, subscriptionId), with status=active, and
\* meets no uniqueness violation: the upsert is done and the purchase is
\* acknowledged.
C3_ValidVerifyLeavesOneActiveRecord ==
  (last.op = "verify" /\ last.threw = 0 /\ last.isValid) =>
    /\ Cardinality(RecordsOf(subs, last.user, last.subscriptionId)) = 1
    /\ \A i \in RecordsOf(subs, last.user, last.subscriptionId) :
         subs[i].status = "active"
    /\ last.ackCalls = 1

----------------------------------------------------------------------------
----------------------------------------------------------------------------
\* C5: a webhook event of any type for a subscriptionId without a record
\* changes nothing, calls no verification and is answered 200; a record is
\* only ever added by a verify request whose verification was valid.
C5_UnknownSubscriptionIsNoOp ==
  [][/\ (WebhookStep /\ FindBySubscriptionId(subs, last'.subscriptionId) = 0)
          => (subs' = subs /\ last'.verifyCalls = 0 /\ last'.status = 200)
     /\ Len(subs') > Len(subs)
          => (last'.op = "verify" /\ last'.threw = 0 /\ last'.isValid)]_vars

\* A RENEWED event for a subscriptionId that no record of a non-empty store
\* carries.
C5_Witness ==
  /\ last.op = "webhook"
  /\ last.decodes
  /\ last.notificationType = "SUBSCRIPTION_RENEWED"
  /\ last.status = 200
  /\ subs # << >>
  /\ FindBySubscriptionId(subs, last.subscriptionId) = 0

----------------------------------------------------------------------------
\* C6 (as claimed): with quiet hours enabled on a window that spans midnight
\* (endTime before startTime), the category enabled and an active token
\* present, a notification is suppressed exactly at the local times of day t
\* with t >= startTime or t <= endTime.
C6_MidnightWindowSuppresses ==
  [][(/\ NotifyStep
      /\ HasPreferences(prefs, last'.user)
      /\ PreferencesOf(prefs, last'.user)[last'.category]
      /\ PreferencesOf(prefs, last'.user).quietHours.enabled
      /\ MinuteOfDay(PreferencesOf(prefs, last'.user).quietHours.endTime)
           < MinuteOfDay(PreferencesOf(prefs, last'.user).quietHours.startTime)
      /\ ActiveTokens(tokens, last'.user) # {}) =>
       LET quietHours == PreferencesOf(prefs, last'.user).quietHours
           tod == LocalMinuteOfDay(now, quietHours.timezone)
       IN last'.calls = << >> <=>
            \/ tod >= MinuteOfDay(quietHours.startTime)
            \/ tod <= MinuteOfDay(quietHours.endTime)]_vars

----------------------------------------------------------------------------
\* C7: when the user's switch for the requested category is false, the Push
\* Delivery Client is not invoked and the skipped outcome is returned,
\* whatever the quiet hours, the time and the device tokens are.
C7_CategoryGate ==
  [][(/\ NotifyStep
      /\ HasPreferences(prefs, last'.user)
      /\ ~PreferencesOf(prefs, last'.user)[last'.category]) =>
       (last'.calls = << >> /\ last'.result = "null")]_vars

\* A skipped notification of a user whose category switch is off while the
\* other gates are open: outside quiet hours, with an active token.
C7_Witness ==
  /\ last.op = "notify"
  /\ HasPreferences(prefs, last.user)
  /\ ~PreferencesOf(prefs, last.user)[last.category]
  /\ ~isWithinQuietHours(PreferencesOf(prefs, last.user).quietHours, now)
  /\ ActiveTokens(tokens, last.user) # {}
  /\ last.calls = << >>
  /\ last.result = "null"

----------------------------------------------------------------------------
\* C8: a notification makes at most one call of the Push Delivery Client,
\* also when delivery fails; the call lists exactly the tokens recorded for
\* the user with isActive=true; and it is made whenever all gates are passed.
C8_TokenFanout ==
  [][NotifyStep =>
       LET u == last'.user
           active == {d.token : d \in {d \in tokens :
                                          d.userId = u /\ d.isActive}}
           gatesPassed ==
             /\ HasPreferences(prefs, u)
             /\ PreferencesOf(prefs, u)[last'.category]
             /\ ~isWithinQuietHours(PreferencesOf(prefs, u).quietHours, now)
             /\ active # {}
       IN /\ Len(last'.calls) <= 1
          /\ \A k \in DOMAIN last'.calls : last'.calls[k] = active
          /\ gatesPassed => Len(last'.calls) = 1]_vars

\* A multicast to a user who also has an inactive token, which the call
\* leaves out.
C8_Witness ==
  /\ last.op = "notify"
  /\ Len(last.calls) = 1
  /\ last.calls[1] # {}
  /\ \E d \in tokens :
       /\ d.userId = last.user
       /\ ~d.isActive
       /\ d.token \notin last.calls[1]

----------------------------------------------------------------------------
----------------------------------------------------------------------------
\* C10 (as claimed): a PAUSED event on an existing record sets status=paused,
\* changes nothing else and calls no verification.
C10_PausedSetsStatusOnly ==
  [][(/\ WebhookStep
      /\ last'.notificationType = "SUBSCRIPTION_PAUSED"
      /\ FindBySubscriptionId(subs, last'.subscriptionId) # 0) =>
       LET i == FindBySubscriptionId(subs, last'.subscriptionId)
       IN /\ subs' = [subs EXCEPT ![i] = [@ EXCEPT !.status = "paused"]]
          /\ last'.verifyCalls = 0]_vars

----------------------------------------------------------------------------
\* C11 (as claimed): a PURCHASED or RENEWED event on an existing record
\* re-verifies once; on a valid result the record gets status=active, the
\* expiryDate of the result and autoRenewing=true; on a result that is not
\* valid the store is unchanged.
C11_RenewalRefreshesRecord ==
  [][(/\ WebhookStep
      /\ last'.notificationType \in
           {"SUBSCRIPTION_PURCHASED", "SUBSCRIPTION_RENEWED"}
      /\ FindBySubscriptionId(subs, last'.subscriptionId) # 0
      /\ last'.threw = 0) =>
       LET i == FindBySubscriptionId(subs, last'.subscriptionId)
       IN /\ last'.verifyCalls = 1
          /\ last'.isValid =>
               subs' = [subs EXCEPT ![i] =
                          [@ EXCEPT !.status = "active",
                                    !.expiryDate = last'.expiryDate,
                                    !.autoRenewing = TRUE]]
          /\ ~last'.isValid => subs' = subs]_vars

----------------------------------------------------------------------------
\* C12 (as claimed): a PRORATED or DEFERRED event on an existing record
\* re-verifies once; on a valid result the record's expiryDate becomes the
\* result's and nothing else changes; on a result that is not valid the
\* store is unchanged.
C12_ProrationRefreshesExpiryOnly ==
  [][(/\ WebhookStep
      /\ last'.notificationType \in
           {"SUBSCRIPTION_PRORATED", "SUBSCRIPTION_DEFERRED"}
      /\ FindBySubscriptionId(subs, last'.subscriptionId) # 0
      /\ last'.threw = 0) =>
       LET i == FindBySubscriptionId(subs, last'.subscriptionId)
       IN /\ last'.verifyCalls = 1
          /\ last'.isValid =>
               subs' = [subs EXCEPT ![i] =
                          [@ EXCEPT !.expiryDate = last'.expiryDate]]
          /\ ~last'.isValid => subs' = subs]_vars

----------------------------------------------------------------------------
\* C13: when the acknowledgement fails after a valid verification, the
\* request fails with 500 and the upsert stays: the store holds what the
\* upsert wrote, a record for (userId, subscriptionId) with status=active and
\* the verified expiryDate.
C13_AckFailureKeepsUpsert ==
  [][(/\ RequestStep
      /\ last'.op = "verify"
      /\ last'.ackCalls = 1
      /\ last'.status # 200) =>
       /\ last'.status = 500
       /\ last'.threw = 0 /\ last'.isValid
       /\ Cardinality(RecordsOf(subs', last'.user, last'.subscriptionId)) = 1
       /\ \A i \in RecordsOf(subs', last'.user, last'.subscriptionId) :
            /\ subs'[i].status = "active"
            /\ subs'[i].expiryDate = last'.expiryDate
            /\ subs'[i].autoRenewing]_vars

\* A failed acknowledgement of a verify that inserted the record, which the
\* store still holds.
C13_Witness ==
  /\ last.op = "verify"
  /\ last.ackCalls = 1
  /\ last.status = 500
  /\ \E i \in RecordsOf(subs, last.user, last.subscriptionId) :
       /\ subs[i].status = "active"
       /\ subs[i].expiryDate = last.expiryDate
       /\ subs[i].startDate = now

----------------------------------------------------------------------------
\* C14 (as claimed): a verify request whose upsert is rejected by a unique
\* index (the verification was valid and no acknowledgement was reached) is
\* answered with a Conflict status, 409 or 400.
C14_UniquenessViolationIsConflict ==
  (/\ last.op = "verify"
   /\ last.threw = 0
   /\ last.isValid
   /\ last.ackCalls = 0) => last.status \in {400, 409}

----------------------------------------------------------------------------
----------------------------------------------------------------------------
\* A step in which a token request writes: it leaves inflight.
TokenSaveStep == inflight' # inflight /\ inflight' \subseteq inflight

\* C16: whatever way register and unregister requests overlap, there is at
\* most one record per token value and no record is removed; an unregister
\* changes nothing but isActive, to false; a register of a token that has a
\* record adds none, and one that found the record inactive leaves it
\* active.
C16_OneRecordPerTokenNeverRemoved ==
  [][/\ \A d, e \in tokens' : d.token = e.token => d = e
     /\ \A d \in tokens : findOneDeviceToken(tokens', d.token) # {}
     /\ (TokenSaveStep /\ last'.op = "unregister") =>
          \A e \in tokens' :
            \/ e \in tokens
            \/ /\ e.token = last'.token
               /\ ~e.isActive
               /\ [e EXCEPT !.isActive = TRUE] \in tokens
     /\ (TokenSaveStep /\ last'.op = "register") =>
          \A req \in inflight \ inflight' :
            /\ findOneDeviceToken(tokens, req.token) # {} =>
                 Cardinality(tokens') = Cardinality(tokens)
            /\ (\E d \in req.found : ~d.isActive) =>
                 \A e \in findOneDeviceToken(tokens', req.token) :
                   e.isActive]_vars

\* A register that lost the race for a new token: its insert was rejected
\* and the record of the other user is the only one.
C16_Witness ==
  /\ last.op = "register"
  /\ last.status = 500
  /\ \E d \in tokens : d.token = last.token /\ d.userId # last.user
  /\ Cardinality(findOneDeviceToken(tokens, last.token)) = 1

----------------------------------------------------------------------------
\* C17: a notification for a user without a preferences record invokes no
\* push call and returns the skipped outcome; no notification creates or
\* changes a preferences record; the read of the preferences of such a user
\* creates the record with the schema defaults.
C17_NoPreferencesNoSend ==
  [][/\ NotifyStep => prefs' = prefs
     /\ (NotifyStep /\ ~HasPreferences(prefs, last'.user)) =>
          (last'.calls = << >> /\ last'.result = "null")
     /\ (/\ RequestStep
         /\ last'.op = "getPreferences"
         /\ ~HasPreferences(prefs, last'.user)) =>
          /\ HasPreferences(prefs', last'.user)
          /\ PreferencesOf(prefs', last'.user)
               = DefaultPreferences(last'.user)]_vars

\* A skipped notification of a category that is on by default, for a user
\* with an active token and no preferences record.
C17_Witness ==
  /\ last.op = "notify"
  /\ ~HasPreferences(prefs, last.user)
  /\ DefaultPreferences(last.user)[last.category]
  /\ ActiveTokens(tokens, last.user) # {}
  /\ last.calls = << >>
  /\ last.result = "null"

----------------------------------------------------------------------------
\* C18 (as claimed): a notification whose push call was made never returns
\* the skipped outcome: a failure of the Push Delivery Client is told apart
\* from a skip.
C18_PushFailureIsNotASkip ==
  (last.op = "notify" /\ last.calls # << >>) => last.result # "null"

----------------------------------------------------------------------------
----------------------------------------------------------------------------
\* C20: a record is written with status=active only by a verify request or
\* a re-verifying webhook event whose verification result is valid, and then
\* with the expiryDate of that result, which is later than the time of the
\* verification.
C20_ActiveOnlyFromValidVerification ==
  [][\A i \in DOMAIN subs' :
       (/\ subs'[i].status = "active"
        /\ (i \notin DOMAIN subs \/ subs'[i] # subs[i])) =>
         /\ last'.op \in {"verify", "webhook"}
         /\ last'.verifyCalls = 1
         /\ last'.threw = 0
         /\ last'.isValid
         /\ subs'[i].expiryDate = last'.expiryDate
         /\ subs'[i].expiryDate > now]_vars

\* An active record whose expiryDate has passed since the verify request
\* that wrote it.
C20_Witness ==
  /\ subs # << >>
  /\ \E i \in DOMAIN subs : /\ subs[i].status = "active"
                            /\ subs[i].expiryDate > subs[i].startDate
                            /\ subs[i].expiryDate < now

----------------------------------------------------------------------------
\* C21 (as claimed): a RECOVERED or RESTARTED event on an existing record
\* re-verifies once; on a valid result the record gets status=active and the
\* expiryDate of the result, autoRenewing and the rest staying as they were;
\* on a result that is not valid the store is unchanged.
C21_RecoveryActivatesKeepsAutoRenewing ==
  [][(/\ WebhookStep
      /\ last'.notificationType \in
           {"SUBSCRIPTION_RECOVERED", "SUBSCRIPTION_RESTARTED"}
      /\ FindBySubscriptionId(subs, last'.subscriptionId) # 0
      /\ last'.threw = 0) =>
       LET i == FindBySubscriptionId(subs, last'.subscriptionId)
       IN /\ last'.verifyCalls = 1
          /\ last'.isValid =>
               subs' = [subs EXCEPT ![i] =
                          [@ EXCEPT !.status = "active",
                                    !.expiryDate = last'.expiryDate]]
          /\ ~last'.isValid => subs' = subs]_vars

----------------------------------------------------------------------------
\* C22 (as claimed): a successful verify for a (userId, subscriptionId) that
\* already has a record leaves the record's startDate as it was.
C22_StartDateSetOnCreationOnly ==
  [][(/\ RequestStep
      /\ last'.op = "verify"
      /\ last'.status = 200
      /\ RecordsOf(subs, last'.user, last'.subscriptionId) # {}) =>
       \A i \in RecordsOf(subs, last'.user, last'.subscriptionId) :
         subs'[i].startDate = subs[i].startDate]_vars

----------------------------------------------------------------------------
\* C26: a webhook event whose notificationType is none of the nine handled
\* values changes no record, calls no verification and is answered 200.
C26_UnknownTypeIgnored ==
  [][(WebhookStep
      /\ last'.notificationType \notin ReverifyingTypes \cup WritingTypes) =>
       /\ subs' = subs
       /\ last'.verifyCalls = 0
       /\ last'.status = 200]_vars

\* An event of an unhandled type for a subscriptionId that has a record.
C26_Witness ==
  /\ last.op = "webhook"
  /\ last.decodes
  /\ last.notificationType = "SUBSCRIPTION_ON_HOLD"
  /\ FindBySubscriptionId(subs, last.subscriptionId) # 0
  /\ last.status = 200

----------------------------------------------------------------------------
----------------------------------------------------------------------------
\* C28 (as claimed): a verify request with a valid verification, for a
\* purchaseToken that backs no record of another (userId, subscriptionId),
\* does not fail at the store: the acknowledgement is reached, the user has
\* an active record for the subscriptionId and no other record is changed.
C28_IndependentRecordsPerUser ==
  [][(/\ RequestStep
      /\ last'.op = "verify"
      /\ last'.threw = 0
      /\ last'.isValid
      /\ \A j \in DOMAIN subs :
           subs[j].purchaseToken = last'.token =>
             j \in RecordsOf(subs, last'.user, last'.subscriptionId)) =>
       /\ last'.ackCalls = 1
       /\ \E i \in RecordsOf(subs', last'.user, last'.subscriptionId) :
            subs'[i].status = "active"
       /\ \A j \in DOMAIN subs :
            j \notin RecordsOf(subs, last'.user, last'.subscriptionId) =>
              subs'[j] = subs[j]]_vars

----------------------------------------------------------------------------
\* C23: for a user whose category is on and who has an active token, with
\* quiet hours enabled on a window that does not span midnight the
\* notification is suppressed exactly when the local time of day t has
\* startTime <= t <= endTime, both ends included; with quiet hours disabled
\* it is sent at every time.
C23_DayWindowInclusive ==
  [][(/\ NotifyStep
      /\ HasPreferences(prefs, last'.user)
      /\ PreferencesOf(prefs, last'.user)[last'.category]
      /\ ActiveTokens(tokens, last'.user) # {}) =>
       LET quietHours == PreferencesOf(prefs, last'.user).quietHours
           tod == LocalMinuteOfDay(now, quietHours.timezone)
           start == MinuteOfDay(quietHours.startTime)
           end == MinuteOfDay(quietHours.endTime)
       IN /\ (quietHours.enabled /\ start <= end) =>
               (last'.calls = << >> <=> (start <= tod /\ tod <= end))
          /\ ~quietHours.enabled => last'.calls # << >>]_vars

\* A notification suppressed at the very end of a window within one day.
C23_Witness ==
  /\ last.op = "notify"
  /\ last.calls = << >>
  /\ HasPreferences(prefs, last.user)
  /\ PreferencesOf(prefs, last.user)[last.category]
  /\ ActiveTokens(tokens, last.user) # {}
  /\ PreferencesOf(prefs, last.user).quietHours.enabled
  /\ MinuteOfDay(PreferencesOf(prefs, last.user).quietHours.startTime)
       < MinuteOfDay(PreferencesOf(prefs, last.user).quietHours.endTime)
  /\ LocalMinuteOfDay(now, PreferencesOf(prefs, last.user).quietHours.timezone)
       = MinuteOfDay(PreferencesOf(prefs, last.user).quietHours.endTime)

\* The request that just wrote or failed is the second step of a read of the
\* preferences.
PreferencesCreateStep ==
  /\ inflight' # inflight
  /\ inflight' \subseteq inflight
  /\ last'.op = "getPreferences"

\* C25: after any interleaving of preference reads and updates, two
\* concurrent first reads included, at most one preferences record exists
\* per userId, and a record that a read creates has the default values: the
\* four switches newWallpapers, trendingWallpapers, subscriptionUpdates and
\* systemUpdates true, marketingUpdates false, quiet hours disabled.
C25_OneDefaultRecordPerUser ==
  [][/\ \A d, e \in prefs' : d.userId = e.userId => d = e
     /\ (PreferencesCreateStep /\ prefs' # prefs) =>
          \E d \in prefs' :
            /\ prefs' = prefs \cup {d}
            /\ d.userId = last'.user
            /\ d.newWallpapers /\ d.trendingWallpapers
            /\ d.subscriptionUpdates /\ d.systemUpdates
            /\ ~d.marketingUpdates
            /\ ~d.quietHours.enabled]_vars

\* Two first reads of one user overlapped, both having found nothing: the
\* first has just created the record with the defaults and answered 200,
\* the second still has its create ahead.
C25_Witness ==
  /\ last.op = "getPreferences"
  /\ last.status = 200
  /\ \E req \in inflight : req.user = last.user /\ req.found = {}
  /\ Cardinality(findOnePreferences(prefs, last.user)) = 1
  /\ \A d \in findOnePreferences(prefs, last.user) :
       d.newWallpapers /\ ~d.marketingUpdates /\ ~d.quietHours.enabled

\* The records of the store that a step created or changed.
Written ==
  {i \in DOMAIN subs' : i \notin DOMAIN subs \/ subs'[i] # subs[i]}

C29_UnregisterByNonOwnerIsRefused ==
  [][(/\ TokenSaveStep
      /\ last'.op = "unregister"
      /\ findOneOwnedDeviceToken(tokens, last'.user, last'.token) = {}) =>
       /\ last'.status = 404
       /\ tokens' = tokens]_vars

\* The user holds a record that is active, not yet expired and premium.
HoldsPremium(u) ==
  \E i \in DOMAIN subs : /\ subs[i].userId = u
                          /\ subs[i].status = "active"
                          /\ subs[i].expiryDate > now
                          /\ subs[i].tier = "premium"

====
